---- MODULE Spec2Model ----
(***************************************************************************)
(* A model of pipeline.py: the ETL cycle run_pipeline (init_db,            *)
(* extract_data, transform_data, load_data, log_run_status) against the    *)
(* two tables crypto_market_data and pipeline_logs.                        *)
(*                                                                         *)
(* Numbers.  Prices and market caps are fixed-point integers counting      *)
(* 1/Scale of a currency unit, so that round(x, 2) has digits to drop.     *)
(* Python's None is NoneNum in a numeric field and NoneStr in a text       *)
(* field.  A raw record is a function whose DOMAIN is the set of keys the  *)
(* JSON object holds, so a key can be absent, or present with null.        *)
(***************************************************************************)
EXTENDS Integers, Sequences, FiniteSets, TLC

\* ------------------------------------------------------------------ bounds
MaxRuns == 2
MaxRawLen == 2

\* --------------------------------------------------------------- constants
USD_TO_INR_RATE == 84
Scale == 10000
NoneNum == 0 - 1
NoneStr == "None"

\* Exceptions: the class and the message str(e) gives
NoExc == [type |-> "None", msg |-> "None"]
KeyError(key) == [type |-> "KeyError", msg |-> key]
TypeError(msg) == [type |-> "TypeError", msg |-> msg]
DatabaseError(call) == [type |-> "psycopg2.Error", msg |-> call]
RequestException(call) == [type |-> "RequestException", msg |-> call]

\* str(e)
str_e(e) == e.msg

\* ---------------------------------------------------------- pure functions
\* dict.get(key, default)
Get(item, key, default) == IF key \in DOMAIN item THEN item[key] ELSE default

\* str.upper() on the symbols the model uses
upper(s) ==
    CASE s = "btc" -> "BTC"
      [] s = "Eth" -> "ETH"
      [] s = "eth" -> "ETH"
      [] OTHER -> s

\* round(x, 2): x counts 1/Scale, the result is the nearest multiple of
\* Scale/100, a tie going to the even one
round2(x) ==
    LET unit == Scale \div 100
        q == x \div unit
        r == x % unit
    IN  IF 2 * r < unit THEN q * unit
        ELSE IF 2 * r > unit THEN (q + 1) * unit
        ELSE IF q % 2 = 0 THEN q * unit ELSE (q + 1) * unit

\* current_price_usd * USD_TO_INR_RATE
to_inr(current_price_usd) == current_price_usd * USD_TO_INR_RATE

\* The exception the loop body raises on item, or NoExc: the body evaluates
\* item.get('current_price', 0) * RATE first, then builds the tuple left to
\* right
item_error(item) ==
    IF Get(item, "current_price", 0) = NoneNum
    THEN TypeError("unsupported operand type(s) for *: 'NoneType' and 'float'")
    ELSE IF "id" \notin DOMAIN item THEN KeyError("'id'")
    ELSE IF "symbol" \notin DOMAIN item THEN KeyError("'symbol'")
    ELSE IF "name" \notin DOMAIN item THEN KeyError("'name'")
    ELSE NoExc

\* The tuple built for one item
record_of(item) ==
    LET current_price_usd == Get(item, "current_price", 0)
        current_price_inr == to_inr(current_price_usd)
    IN  << item["id"],
           upper(item["symbol"]),
           item["name"],
           current_price_usd,
           round2(current_price_inr),
           Get(item, "market_cap", 0),
           Get(item, "last_updated", NoneStr) >>

\* transform_loop skipping an item that raises (a partial result)
RECURSIVE transform_loop_skipping(_, _, _)
transform_loop_skipping(raw_data, i, transformed) ==
    IF i > Len(raw_data) THEN [exc |-> NoExc, value |-> transformed]
    ELSE transform_loop_skipping(raw_data, i + 1,
             IF item_error(raw_data[i]) # NoExc THEN transformed
             ELSE Append(transformed, record_of(raw_data[i])))

\* transform_data(raw_data): the for loop, appending to transformed until an
\* item raises; the result is [exc, value]
RECURSIVE transform_loop(_, _, _)
transform_loop(raw_data, i, transformed) ==
    IF i > Len(raw_data) THEN [exc |-> NoExc, value |-> transformed]
    ELSE IF item_error(raw_data[i]) # NoExc
         THEN [exc |-> item_error(raw_data[i]), value |-> << >>]
         ELSE transform_loop(raw_data, i + 1,
                             Append(transformed, record_of(raw_data[i])))

transform_data(raw_data) == transform_loop(raw_data, 1, << >>)

\* ------------------------------------------------------------- the tables
\* A row of crypto_market_data made from a tuple of transform_data; fetched_at
\* is CURRENT_TIMESTAMP
new_row(rec, now) ==
    [coin_id |-> rec[1], symbol |-> rec[2], name |-> rec[3],
     current_price_usd |-> rec[4], current_price_inr |-> rec[5],
     market_cap |-> rec[6], api_last_updated |-> rec[7], fetched_at |-> now]

\* on_conflict with symbol and name in the SET list too
on_conflict_all_columns(row, rec, now) ==
    [coin_id |-> row.coin_id, symbol |-> rec[2], name |-> rec[3],
     current_price_usd |-> rec[4], current_price_inr |-> rec[5],
     market_cap |-> rec[6], api_last_updated |-> rec[7], fetched_at |-> now]

\* ON CONFLICT (coin_id) DO UPDATE SET ...: the columns the statement assigns
on_conflict(row, rec, now) ==
    [row EXCEPT !.current_price_usd = rec[4],
                !.current_price_inr = rec[5],
                !.market_cap = rec[6],
                !.api_last_updated = rec[7],
                !.fetched_at = now]

\* INSERT ... ON CONFLICT of one tuple into the table (a set of rows)
upsert_one(table, rec, now) ==
    IF \E row \in table : row.coin_id = rec[1]
    THEN { IF row.coin_id = rec[1] THEN on_conflict(row, rec, now) ELSE row
           : row \in table }
    ELSE table \cup { new_row(rec, now) }

\* execute_values(cur, query, data): one INSERT statement over the whole list
\* (a page holds 100 tuples, the API returns 10).  The store refuses a
\* statement that touches the same key twice.  Result: [exc, table]
RECURSIVE execute_values(_, _, _, _, _)
execute_values(table, data, i, seen, now) ==
    IF i > Len(data) THEN [exc |-> NoExc, table |-> table]
    ELSE IF data[i][1] \in seen
         THEN [exc |-> DatabaseError("ON CONFLICT DO UPDATE command cannot affect row a second time"),
               table |-> table]
         ELSE execute_values(upsert_one(table, data[i], now), data, i + 1,
                             seen \cup { data[i][1] }, now)

\* A row of pipeline_logs
log_row(status, error_msg, records_count) ==
    [status |-> status, error_message |-> error_msg,
     records_processed |-> records_count]

\* ------------------------------------------------------------------ inputs
\* The JSON objects the API answers with in the model
btc1 == [id |-> "bitcoin", symbol |-> "btc", name |-> "Bitcoin",
         current_price |-> 10005, market_cap |-> 7, last_updated |-> "t1"]
btc2 == [id |-> "bitcoin", symbol |-> "xbt", name |-> "Bitcoin2",
         current_price |-> 20000, market_cap |-> 9, last_updated |-> "t2"]
eth1 == [id |-> "ethereum", symbol |-> "Eth", name |-> "Ethereum"]
noid == [symbol |-> "btc", name |-> "Bitcoin", current_price |-> 10005]
nullprice == [id |-> "ethereum", symbol |-> "eth", name |-> "Ethereum",
              current_price |-> NoneNum]

RECURSIVE SeqsUpTo(_, _)
SeqsUpTo(S, n) ==
    IF n = 0 THEN { << >> }
    ELSE LET shorter == SeqsUpTo(S, n - 1)
         IN  shorter \cup { Append(q, x) : q \in shorter, x \in S }

\* response.json(): the JSON arrays the API answers with in the model: empty,
\* a first listing, a later listing of the same asset with another one, a
\* valid record followed by one without id, the same id twice, a null price
Responses == { << >>, << btc1 >>, << btc2, eth1 >>, << btc1, noid >>,
               << btc1, btc2 >>, << nullprice >> }

\* The call of a function that raises in one execution of it ("none": none)
InitDbFaults == { "none", "connect", "cursor", "execute", "commit",
                  "cur_close", "conn_close" }
ExtractFaults == { "none", "request", "http_status", "json" }
ConnectFaults == { "none", "connect" }
LoadFaults == { "none", "cursor", "execute", "commit", "cur_close" }
CloseFaults == { "none", "conn_close" }
LogFaults == { "none", "connect", "cursor", "execute", "commit", "conn_close" }

\* ------------------------------------------------------------------- state
VARIABLES
    market,      \* crypto_market_data: the committed rows
    logs,        \* pipeline_logs: the committed rows, in insertion order
    pc,          \* where run_pipeline is
    runs,        \* invocations started; also the store's clock
    raw_data,    \* run_pipeline's local
    clean_data,  \* run_pipeline's local
    exc,         \* the exception run_pipeline caught, or NoExc
    conns,       \* connections opened in this invocation and still open
    curs,        \* cursors opened in this invocation and still open
    steps,       \* history: the calls run_pipeline made in this invocation
    logCalls,    \* history: the arguments of each log_run_status call
    logFault,    \* history: a call inside log_run_status raised
    failedAt,    \* history: the step whose exception was caught first
    committed,   \* history: load_data committed in this invocation
    market0,     \* history: market when the invocation started
    logs0,       \* history: logs when the invocation started
    prev,        \* history: the invocation before this one
    tRaw,        \* the transformer alone: its argument
    tOut         \* the transformer alone: its result, or Pending

vars == << market, logs, pc, runs, raw_data, clean_data, exc, conns, curs,
           steps, logCalls, logFault, failedAt, committed, market0, logs0,
           prev, tRaw, tOut >>

tvars == << tRaw, tOut >>
tables == << market, logs >>

Pending == [exc |-> [type |-> "pending", msg |-> "pending"], value |-> << >>]
NoPrev == [ran |-> FALSE, extracted |-> FALSE, raw_data |-> << >>,
           committed |-> FALSE, market |-> {}, nlogs |-> 0]

Terminal == { "returned", "raised" }
Range(q) == { q[i] : i \in DOMAIN q }

Init ==
    /\ market = {}
    /\ logs = << >>
    /\ pc = "idle"
    /\ runs = 0
    /\ raw_data = << >>
    /\ clean_data = << >>
    /\ exc = NoExc
    /\ conns = {}
    /\ curs = {}
    /\ steps = << >>
    /\ logCalls = << >>
    /\ logFault = FALSE
    /\ failedAt = "nowhere"
    /\ committed = FALSE
    /\ market0 = {}
    /\ logs0 = << >>
    /\ prev = NoPrev
    /\ tRaw = << >>
    /\ tOut = Pending

\* conn.close(): the connection's cursors report closed with it.  A close()
\* that raises is counted as having released its resource: what stays in
\* conns and curs is what no close() was called on.
closed(owner) ==
    /\ conns' = conns \ { owner }
    /\ curs' = curs \ { owner }

\* An exception reaches run_pipeline's except clause
caught(step, e) ==
    /\ exc' = e
    /\ failedAt' = IF failedAt = "nowhere" THEN step ELSE failedAt
    /\ pc' = "log_failed"

\* The process calls run_pipeline()
StartRun ==
    /\ pc \in { "idle" } \cup Terminal
    /\ runs < MaxRuns
    /\ runs' = runs + 1
    /\ pc' = "init_db"
    /\ raw_data' = << >>
    /\ clean_data' = << >>
    /\ exc' = NoExc
    /\ conns' = {}
    /\ curs' = {}
    /\ steps' = << >>
    /\ logCalls' = << >>
    /\ logFault' = FALSE
    /\ failedAt' = "nowhere"
    /\ committed' = FALSE
    /\ market0' = market
    /\ logs0' = logs
    /\ prev' = [ran |-> pc \in Terminal,
                extracted |-> "transform" \in Range(steps),
                raw_data |-> raw_data,
                committed |-> committed, market |-> market,
                nlogs |-> Len(logs) - Len(logs0)]
    /\ UNCHANGED << tables, tvars >>

\* schema.sql against the tables: CREATE ... IF NOT EXISTS, no row changes
schema_sql(table) == table

\* init_db()
InitDb(fault) ==
    /\ pc = "init_db"
    /\ steps' = Append(steps, "init_db")
    /\ market' = schema_sql(market)
    /\ logs' = schema_sql(logs)
    /\ CASE fault = "connect" ->
              \* get_db_connection raises: nothing was opened
              /\ UNCHANGED << conns, curs >>
              /\ caught("init_db", DatabaseError(fault))
         [] fault = "cursor" ->
              \* conn.cursor() is outside the try: conn is not closed
              /\ conns' = conns \cup { "init_db" }
              /\ UNCHANGED curs
              /\ caught("init_db", DatabaseError(fault))
         [] fault \in { "execute", "commit" } ->
              \* except: rollback, raise; finally: cur.close(), conn.close()
              /\ UNCHANGED << conns, curs >>
              /\ caught("init_db", DatabaseError(fault))
         [] fault = "cur_close" ->
              \* finally: cur.close() raises, conn.close() is not reached
              /\ conns' = conns \cup { "init_db" }
              /\ UNCHANGED curs
              /\ caught("init_db", DatabaseError(fault))
         [] fault = "conn_close" ->
              /\ UNCHANGED << conns, curs >>
              /\ caught("init_db", DatabaseError(fault))
         [] OTHER ->
              /\ UNCHANGED << conns, curs, exc, failedAt >>
              /\ pc' = "extract"
    /\ UNCHANGED << runs, raw_data, clean_data, logCalls, logFault, committed,
                    market0, logs0, prev, tvars >>

\* extract_data()
ExtractData(fault, response) ==
    /\ pc = "extract"
    /\ steps' = Append(steps, "extract")
    /\ IF fault # "none"
       THEN /\ caught("extract", RequestException(fault))
            /\ UNCHANGED raw_data
       ELSE /\ raw_data' = response
            /\ pc' = "transform"
            /\ UNCHANGED << exc, failedAt >>
    /\ UNCHANGED << tables, runs, clean_data, conns, curs, logCalls, logFault,
                    committed, market0, logs0, prev, tvars >>

\* clean_data = transform_data(raw_data)
TransformData ==
    /\ pc = "transform"
    /\ steps' = Append(steps, "transform")
    /\ LET res == transform_data(raw_data)
       IN  IF res.exc # NoExc
           THEN /\ caught("transform", res.exc)
                /\ UNCHANGED clean_data
           ELSE /\ clean_data' = res.value
                /\ pc' = "connect"
                /\ UNCHANGED << exc, failedAt >>
    /\ UNCHANGED << tables, runs, raw_data, conns, curs, logCalls, logFault,
                    committed, market0, logs0, prev, tvars >>

\* conn = get_db_connection()
GetDbConnection(fault) ==
    /\ pc = "connect"
    /\ steps' = Append(steps, "connect")
    /\ IF fault # "none"
       THEN /\ caught("connect", DatabaseError(fault))
            /\ UNCHANGED conns
       ELSE /\ conns' = conns \cup { "load" }
            /\ pc' = "load"
            /\ UNCHANGED << exc, failedAt >>
    /\ UNCHANGED << tables, runs, raw_data, clean_data, curs, logCalls,
                    logFault, committed, market0, logs0, prev, tvars >>

\* load_data(conn, data), called with clean_data on the connection of
\* run_pipeline; a raise leaves that connection open (conn.close() is the
\* statement after the call)
LoadData(fault) ==
    /\ pc = "load"
    /\ steps' = Append(steps, "load")
    /\ LET res == execute_values(market, clean_data, 1, {}, runs)
       IN  IF fault = "cursor"
           THEN \* conn.cursor() raises before the try
                /\ UNCHANGED << market, committed, curs >>
                /\ caught("load", DatabaseError(fault))
           ELSE IF fault = "execute" \/ res.exc # NoExc
           THEN \* except: conn.rollback(), raise; finally: cur.close()
                /\ UNCHANGED << market, committed, curs >>
                /\ caught("load", IF fault = "execute"
                                  THEN DatabaseError(fault) ELSE res.exc)
           ELSE IF fault = "commit"
           THEN /\ UNCHANGED << market, committed, curs >>
                /\ caught("load", DatabaseError(fault))
           ELSE IF fault = "cur_close"
           THEN \* committed; finally: cur.close() raises
                /\ market' = res.table
                /\ committed' = TRUE
                /\ UNCHANGED curs
                /\ caught("load", DatabaseError(fault))
           ELSE /\ market' = res.table
                /\ committed' = TRUE
                /\ pc' = "close"
                /\ UNCHANGED << curs, exc, failedAt >>
    /\ UNCHANGED << logs, runs, raw_data, clean_data, conns, logCalls,
                    logFault, market0, logs0, prev, tvars >>

\* conn.close() in run_pipeline
CloseConn(fault) ==
    /\ pc = "close"
    /\ steps' = Append(steps, "close")
    /\ IF fault # "none"
       THEN /\ caught("close", DatabaseError(fault))
            /\ closed("load")
       ELSE /\ closed("load")
            /\ pc' = "log_success"
            /\ UNCHANGED << exc, failedAt >>
    /\ UNCHANGED << tables, runs, raw_data, clean_data, logCalls, logFault,
                    committed, market0, logs0, prev, tvars >>

\* success_args without records_count (the parameter's default)
success_args_default_count(data) ==
    [status |-> "SUCCESS", error_msg |-> NoneStr, records_count |-> 0]

\* failure_args with the exception's class in place of str(e)
failure_args_class_name(e) ==
    [status |-> "FAILED", error_msg |-> e.type, records_count |-> 0]

\* The arguments of the two calls of log_run_status
success_args(data) ==
    [status |-> "SUCCESS", error_msg |-> NoneStr, records_count |-> Len(data)]

failure_args(e) ==
    [status |-> "FAILED", error_msg |-> str_e(e), records_count |-> 0]

\* The calls of log_run_status after which the row is committed
log_commits(fault) == fault \in { "none", "conn_close" }

\* The calls of log_run_status whose exception leaves the function: the
\* except clause covers the try body, not conn.close() in the finally
log_raises(fault) == fault = "conn_close"

\* log_run_status(status, error_msg, records_count): its connection is
\* closed in the finally on every path that opened it
log_run_status(args, fault) ==
    /\ logCalls' = Append(logCalls, args)
    /\ logFault' = (logFault \/ fault # "none")
    /\ logs' = IF log_commits(fault)
               THEN Append(logs, log_row(args.status, args.error_msg,
                                         args.records_count))
               ELSE logs
    /\ UNCHANGED << conns, curs >>

\* log_run_status("SUCCESS", records_count=len(clean_data)), inside the try
LogSuccess(fault) ==
    /\ pc = "log_success"
    /\ steps' = Append(steps, "log_success")
    /\ log_run_status(success_args(clean_data), fault)
    /\ IF log_raises(fault)
       THEN caught("log_success", DatabaseError(fault))
       ELSE /\ pc' = "returned"
            /\ UNCHANGED << exc, failedAt >>
    /\ UNCHANGED << market, runs, raw_data, clean_data, committed, market0,
                    logs0, prev, tvars >>

\* except Exception as e: log_run_status("FAILED", error_msg=str(e))
LogFailed(fault) ==
    /\ pc = "log_failed"
    /\ steps' = Append(steps, "log_failed")
    /\ log_run_status(failure_args(exc), fault)
    /\ pc' = IF log_raises(fault) THEN "raised" ELSE "returned"
    /\ UNCHANGED << market, runs, raw_data, clean_data, exc, failedAt,
                    committed, market0, logs0, prev, tvars >>

Next ==
    \/ StartRun
    \/ \E fault \in InitDbFaults : InitDb(fault)
    \/ \E fault \in ExtractFaults, response \in Responses :
           ExtractData(fault, response)
    \/ TransformData
    \/ \E fault \in ConnectFaults : GetDbConnection(fault)
    \/ \E fault \in LoadFaults : LoadData(fault)
    \/ \E fault \in CloseFaults : CloseConn(fault)
    \/ \E fault \in LogFaults : LogSuccess(fault)
    \/ \E fault \in LogFaults : LogFailed(fault)

Spec == Init /\ [][Next]_vars

\* ---------------------------------------------------- the transformer alone
EmptyItem == [k \in {} |-> k]
Field(key, values) == { EmptyItem } \cup { key :> v : v \in values }

\* Every JSON object over the six keys, each key absent or present
TRecords ==
    { a @@ b @@ c @@ d @@ e @@ f :
        a \in Field("id", { "bitcoin" }),
        b \in Field("symbol", { "btc", "Eth" }),
        c \in Field("name", { "Bitcoin" }),
        d \in Field("current_price", { NoneNum, 10005 }),
        e \in Field("market_cap", { 7 }),
        f \in Field("last_updated", { "t1" }) }

TInit ==
    /\ market = {}
    /\ logs = << >>
    /\ pc = "idle"
    /\ runs = 0
    /\ raw_data = << >>
    /\ clean_data = << >>
    /\ exc = NoExc
    /\ conns = {}
    /\ curs = {}
    /\ steps = << >>
    /\ logCalls = << >>
    /\ logFault = FALSE
    /\ failedAt = "nowhere"
    /\ committed = FALSE
    /\ market0 = {}
    /\ logs0 = << >>
    /\ prev = NoPrev
    /\ tRaw \in SeqsUpTo(TRecords, MaxRawLen)
    /\ tOut = Pending

\* tOut = transform_data(tRaw)
ApplyTransform ==
    /\ tOut = Pending
    /\ tOut' = transform_data(tRaw)
    /\ UNCHANGED << market, logs, pc, runs, raw_data, clean_data, exc, conns,
                    curs, steps, logCalls, logFault, failedAt, committed,
                    market0, logs0, prev, tRaw >>

TNext == ApplyTransform

SpecT == TInit /\ [][TNext]_vars

\* ================================================================== claims
\* The steps of run_pipeline in the order of its try body
Order == << "init_db", "extract", "transform", "connect", "load", "close",
            "log_success" >>
IndexOf(step) == CHOOSE i \in DOMAIN Order : Order[i] = step

\* The run-log rows this invocation appended
NewLogs == SubSeq(logs, Len(logs0) + 1, Len(logs))

Required == { "id", "symbol", "name" }
HasRequired(raw) == \A i \in DOMAIN raw : Required \subseteq DOMAIN raw[i]

\* A market-data row without fetched_at
StripFetched(row) ==
    << row.coin_id, row.symbol, row.name, row.current_price_usd,
       row.current_price_inr, row.market_cap, row.api_last_updated >>

\* C1: every invocation, whatever succeeds or fails in it (the logger's own
\* database calls included), appends exactly one run-log row: after N
\* invocations the run-log table holds N rows.
C1_OneRowPerInvocation ==
    pc \in Terminal => /\ Len(logs) = Len(logs0) + 1
                       /\ Len(logs) = runs

\* C2: when run_pipeline has returned, no connection and no cursor opened
\* during the invocation is still open.
C2_AllReleased ==
    pc \in Terminal => conns = {} /\ curs = {}

\* C7: a failure inside the run logger is suppressed: run_pipeline does not
\* raise, the logger is not invoked a second time, and a run whose steps
\* succeeded is not logged as FAILED.
C7_LoggerFailureSuppressed ==
    logFault =>
        /\ pc # "raised"
        /\ Len(logCalls) = 1
        /\ (logCalls[1].status = "SUCCESS" =>
                \A i \in DOMAIN NewLogs : NewLogs[i].status # "FAILED")
        /\ (committed => market = execute_values(market0, clean_data, 1, {}, runs).table)

\* C10: an invocation that ends with a FAILED run-log row left the
\* market-data table exactly as it was before the invocation.
C10_FailedLeavesMarketUnchanged ==
    (pc \in Terminal /\ \E i \in DOMAIN NewLogs : NewLogs[i].status = "FAILED")
        => market = market0

\* C9: running run_pipeline twice in succession with the same API response
\* leaves the market-data table, fetched_at aside, as the first run left it,
\* and each of the two runs adds one run-log row.
C9_SecondRunIdempotentButLogged ==
    ( /\ pc \in Terminal
      /\ prev.ran /\ prev.extracted /\ prev.committed
      /\ "transform" \in Range(steps)
      /\ raw_data = prev.raw_data )
    => /\ { StripFetched(row) : row \in market }
            = { StripFetched(row) : row \in prev.market }
       /\ Cardinality(market) = Cardinality(prev.market)
       /\ prev.nlogs = 1
       /\ Len(NewLogs) = 1

\* The tuple C8 describes for one raw record
Expected(item) ==
    LET P == IF "current_price" \in DOMAIN item THEN item["current_price"] ELSE 0
    IN  << item["id"], upper(item["symbol"]), item["name"], P,
           round2(P * USD_TO_INR_RATE),
           IF "market_cap" \in DOMAIN item THEN item["market_cap"] ELSE 0,
           IF "last_updated" \in DOMAIN item THEN item["last_updated"] ELSE NoneStr >>

\* C8: for every raw record list in which each record has id, symbol and
\* name, transform_data returns a list of the same length whose i-th tuple
\* is the one C8 describes for the i-th raw record.
C8_TransformOneToOne ==
    (tOut # Pending /\ HasRequired(tRaw)) =>
        /\ tOut.exc = NoExc
        /\ Len(tOut.value) = Len(tRaw)
        /\ \A i \in DOMAIN tRaw : tOut.value[i] = Expected(tRaw[i])

\* The steps at which a component fails before LOADED is reached
BeforeLoaded == { "init_db", "extract", "transform", "connect", "load" }

\* C3: a failure raised before LOADED is reached makes run_pipeline skip all
\* remaining steps and call the run logger once, with FAILED, str(e) of that
\* failure and records-processed 0; the invocation writes no SUCCESS row.
C3_FailureRoutedToFailedLog ==
    (failedAt \in BeforeLoaded /\ pc \in Terminal) =>
        /\ steps = Append(SubSeq(Order, 1, IndexOf(failedAt)), "log_failed")
        /\ Len(logCalls) = 1
        /\ logCalls[1].status = "FAILED"
        /\ logCalls[1].error_msg = exc.msg
        /\ logCalls[1].records_count = 0
        /\ \A i \in DOMAIN NewLogs : NewLogs[i].status = "FAILED"

C3_Witness ==
    /\ pc = "returned"
    /\ failedAt = "load"
    /\ exc.type = "psycopg2.Error"
    /\ Len(clean_data) = 2
    /\ NewLogs = << log_row("FAILED", exc.msg, 0) >>

\* C4: a SUCCESS run-log row is written only after init_db, extract,
\* transform and load completed without error and the load committed; its
\* error message is null and its records-processed is the number of
\* transformed records, which is the number of raw records.
C4_SuccessOnlyAfterCommit ==
    \A i \in DOMAIN NewLogs :
        NewLogs[i].status = "SUCCESS" =>
            /\ i = 1
            /\ committed
            /\ failedAt \in { "nowhere", "log_success" }
            /\ SubSeq(steps, 1, Len(Order)) = Order
            /\ market = execute_values(market0, clean_data, 1, {}, runs).table
            /\ NewLogs[i].error_message = NoneStr
            /\ NewLogs[i].records_processed = Len(clean_data)
            /\ Len(clean_data) = Len(raw_data)

C4_Witness ==
    /\ pc = "returned"
    /\ NewLogs = << log_row("SUCCESS", NoneStr, 2) >>
    /\ Cardinality(market) = 2

\* C5 as stated: a batch with a record lacking id, symbol or name makes
\* transform_data fail with no partial result; the invocation changes no
\* market-data row and appends one FAILED run-log row with a non-null error
\* message and records-processed 0.
MissingRequired == "transform" \in Range(steps) /\ ~HasRequired(raw_data)

UniqueIds(table) ==
    \A r1 \in table, r2 \in table : r1.coin_id = r2.coin_id => r1 = r2

BatchIds == { clean_data[i][1] : i \in DOMAIN clean_data }

\* C6: a committed load_data leaves, for each record of the batch, one row
\* with that asset identifier: when the identifier existed, its two prices,
\* market cap, source timestamp and fetched_at are the new record's (fetched_at
\* the current time) and its symbol and name are the old row's; when it is
\* new, all seven fields are the record's.  Rows whose identifier is not in
\* the batch are unchanged, and no two rows ever share an identifier.
C6_UpsertSemantics ==
    /\ UniqueIds(market)
    /\ committed =>
        /\ \A i \in DOMAIN clean_data :
              LET rec == clean_data[i]
                  now == { row \in market : row.coin_id = rec[1] }
                  old == { row \in market0 : row.coin_id = rec[1] }
              IN  /\ Cardinality(now) = 1
                  /\ \A row \in now :
                        /\ row.current_price_usd = rec[4]
                        /\ row.current_price_inr = rec[5]
                        /\ row.market_cap = rec[6]
                        /\ row.api_last_updated = rec[7]
                        /\ row.fetched_at = runs
                        /\ \A o \in old : row.symbol = o.symbol /\ row.name = o.name
                        /\ old = {} => row.symbol = rec[2] /\ row.name = rec[3]
        /\ { row \in market : row.coin_id \notin BatchIds }
              = { row \in market0 : row.coin_id \notin BatchIds }

C6_Witness ==
    /\ committed
    /\ Len(clean_data) = 2
    /\ \E row \in market, old \in market0, i \in DOMAIN clean_data :
          /\ row.coin_id = old.coin_id
          /\ clean_data[i][1] = row.coin_id
          /\ clean_data[i][2] # row.symbol
          /\ row.current_price_usd # old.current_price_usd
          /\ row.fetched_at # old.fetched_at
    /\ \E row \in market : \A old \in market0 : old.coin_id # row.coin_id

====
